---- MODULE Spec2Model ----
(***************************************************************************)
(* A model of the lead pipeline's stage handlers (agents/app/routers) and  *)
(* of the text extraction every stage applies to the Generator's output.   *)
(*                                                                         *)
(* A text is a sequence of tokens.  Each token stands for a fixed piece of *)
(* a string:                                                               *)
(*   "{"  "}"   the two brace characters                                   *)
(*   "w"        brace-free prose (commentary)                              *)
(*   "hdr"      the title line pretty_repr() puts before a message         *)
(*   "num"      a JSON scalar (a number)                                   *)
(*   "e["  "]"  the member opener  "emails": [   and the closing bracket   *)
(*   others     one or more complete JSON members  "key": value  whose     *)
(*              value is brace-free (MemberKeys, MemberVal)                *)
(* Separating commas and white space are part of the member tokens.        *)
(***************************************************************************)
EXTENDS Integers, Sequences, FiniteSets, TLC

VARIABLES
  variant,    \* which implementation of the routers is deployed
  entry,      \* the route outside callers POST to
  units,      \* the tasks asyncio.create_task has scheduled, in creation order
  bus,        \* the calls of produce, in call order
  consumed,   \* the positions of bus already delivered to the next stage
  requests,   \* the HTTP requests answered so far, in order
  text,       \* the input of the extraction studied on its own
  result,     \* its result
  lookups     \* the tool invocations of the Generator studied on their own

vars == <<variant, entry, units, bus, consumed, requests, text, result, lookups>>

(***************************************************************************)
(* Bounds of the model.                                                    *)
(***************************************************************************)
MaxTextLen == 6
MaxBatch == 2
MaxUnits == 3
MaxLookups == 2

(***************************************************************************)
(* JSON members.                                                           *)
(***************************************************************************)
\* None of Python, as the value of a JSON null.
None == "<None>"

ScalarMembers ==
  {"s90", "s45", "s101", "nAE", "nNu", "nMaybe", "t3", "t2", "tsb",
   "ctAE", "ctNu", "ctMaybe", "ctNull"}

MemberKeys(tok) ==
  CASE tok \in {"s90", "s45", "s101"} -> {"score"}
    [] tok \in {"nAE", "nNu", "nMaybe"} -> {"next_step"}
    [] tok \in {"t3", "t2"} -> {"talking_points"}
    [] tok = "tsb" -> {"to", "subject", "body"}
    [] tok \in {"ctAE", "ctNu", "ctMaybe", "ctNull"} -> {"campaign_type"}
    [] OTHER -> {}

MemberVal(tok, key) ==
  CASE tok = "s90" -> 90
    [] tok = "s45" -> 45
    [] tok = "s101" -> 101
    [] tok \in {"nAE", "ctAE"} -> "Actively Engage"
    [] tok \in {"nNu", "ctNu"} -> "Nurture"
    [] tok \in {"nMaybe", "ctMaybe"} -> "Maybe"
    [] tok = "ctNull" -> None
    [] tok = "t3" -> <<"point", "point", "point">>
    [] tok = "t2" -> <<"point", "point">>
    [] tok = "tsb" -> key
    [] OTHER -> None

\* The order json.dumps is modelled to write the members in.
MemberOrder ==
  <<"s90", "s45", "s101", "nAE", "nNu", "nMaybe", "t3", "t2", "tsb",
    "ctAE", "ctNu", "ctMaybe", "ctNull">>

EmptyDict == <<>>

\* dict[key] = value for every key of the member; a repeated key keeps the last value.
DictWith(d, tok) ==
  [k \in DOMAIN d \cup MemberKeys(tok) |->
     IF k \in MemberKeys(tok) THEN MemberVal(tok, k) ELSE d[k]]

DictPut(d, key, val) ==
  [k \in DOMAIN d \cup {key} |-> IF k = key THEN val ELSE d[k]]

\* dict.get(key, None)
DictGet(d, key) == IF key \in DOMAIN d THEN d[key] ELSE None

(***************************************************************************)
(* json.loads: a recursive-descent parse of a token sequence.  A parse     *)
(* state is [ok, val, next]: next is the position after the parsed part.   *)
(***************************************************************************)
ParseFail == [ok |-> FALSE, val |-> EmptyDict, next |-> 0]

\* A JSON value: an object (a dict), or a scalar.  json.loads returns one or raises
\* JSONDecodeError.  The elements of an array are JSON values.
JsonObject(d) == [kind |-> "object", val |-> d]
JsonScalar == [kind |-> "scalar", val |-> EmptyDict]
JSONDecodeError == [kind |-> "JSONDecodeError", val |-> EmptyDict]

RECURSIVE ParseMembers(_, _, _), ParseArray(_, _, _)

\* s[i] is "{": the object that starts there.
ParseObject(s, i) == ParseMembers(s, i + 1, EmptyDict)

ParseMembers(s, i, d) ==
  IF i > Len(s) THEN ParseFail
  ELSE IF s[i] = "}" THEN [ok |-> TRUE, val |-> d, next |-> i + 1]
  ELSE IF s[i] \in ScalarMembers THEN ParseMembers(s, i + 1, DictWith(d, s[i]))
  ELSE IF s[i] = "e["
    THEN LET a == ParseArray(s, i + 1, <<>>)
         IN  IF a.ok THEN ParseMembers(s, a.next, DictPut(d, "emails", a.val))
             ELSE ParseFail
  ELSE ParseFail

\* The elements of an array, up to its closing bracket.
ParseArray(s, i, acc) ==
  IF i > Len(s) THEN ParseFail
  ELSE IF s[i] = "]" THEN [ok |-> TRUE, val |-> acc, next |-> i + 1]
  ELSE IF s[i] = "num" THEN ParseArray(s, i + 1, Append(acc, JsonScalar))
  ELSE IF s[i] = "{"
    THEN LET o == ParseObject(s, i)
         IN  IF o.ok THEN ParseArray(s, o.next, Append(acc, JsonObject(o.val)))
             ELSE ParseFail
  ELSE ParseFail

json_loads(s) ==
  IF Len(s) = 0 THEN JSONDecodeError
  ELSE IF s[1] = "{"
    THEN LET o == ParseObject(s, 1)
         IN  IF o.ok /\ o.next = Len(s) + 1 THEN JsonObject(o.val) ELSE JSONDecodeError
  ELSE IF s = <<"num">> THEN JsonScalar
  ELSE JSONDecodeError

(***************************************************************************)
(* json.dumps of a JSON value.  The members of a dict are written in a     *)
(* fixed order (dict equality does not depend on the order).               *)
(***************************************************************************)
RECURSIVE DumpMembers(_, _), DumpArray(_, _), json_dumps(_)

\* The member tokens of d, from position i of MemberOrder on.
DumpMembers(d, i) ==
  IF i > Len(MemberOrder) THEN <<>>
  ELSE LET tok == MemberOrder[i]
           has == \A k \in MemberKeys(tok) : k \in DOMAIN d /\ d[k] = MemberVal(tok, k)
       IN  (IF has THEN <<tok>> ELSE <<>>) \o DumpMembers(d, i + 1)

DumpArray(a, i) ==
  IF i > Len(a) THEN <<>> ELSE json_dumps(a[i]) \o DumpArray(a, i + 1)

\* str(v) in the place of json.dumps(v): the text of a dict is written with
\* single quotes and is no JSON document.
python_str(v) == IF v.kind = "scalar" THEN <<"num">> ELSE <<"w">>

json_dumps(v) ==
  IF v.kind = "scalar" THEN <<"num">>
  ELSE LET d == v.val
       IN  <<"{">>
           \o DumpMembers([k \in DOMAIN d \ {"emails"} |-> d[k]], 1)
           \o (IF "emails" \in DOMAIN d
                 THEN <<"e[">> \o DumpArray(d["emails"], 1) \o <<"]">>
                 ELSE <<>>)
           \o <<"}">>

(***************************************************************************)
(* re.search(r"\{.*\}", content, re.DOTALL): the leftmost "{" that has a   *)
(* "}" after it, and from there the longest match, up to the last "}".     *)
(***************************************************************************)
NoMatch == [found |-> FALSE, first |-> 0, last |-> 0]

\* re.match in the place of re.search: a match only at the start of the text.
re_match(content) ==
  LET closes == {j \in 2..Len(content) : content[j] = "}"}
  IN  IF Len(content) = 0 \/ content[1] # "{" \/ closes = {} THEN NoMatch
      ELSE [found |-> TRUE, first |-> 1,
            last |-> CHOOSE j \in closes : \A k \in closes : k <= j]

\* The lazy search r"\{.*?\}": from the same "{" up to the first "}" after it.
re_search_lazy(content) ==
  LET opens == {i \in 1..Len(content) : content[i] = "{"}
      closes == {j \in 1..Len(content) : content[j] = "}"}
      starts == {i \in opens : \E j \in closes : j > i}
  IN  IF starts = {} THEN NoMatch
      ELSE LET first == CHOOSE i \in starts : \A k \in starts : i <= k
           IN  [found |-> TRUE, first |-> first,
                last |-> CHOOSE j \in closes : j > first /\ \A k \in closes : k > first => j <= k]

re_search(content) ==
  LET opens == {i \in 1..Len(content) : content[i] = "{"}
      closes == {j \in 1..Len(content) : content[j] = "}"}
      starts == {i \in opens : \E j \in closes : j > i}
  IN  IF starts = {} THEN NoMatch
      ELSE [found |-> TRUE,
            first |-> CHOOSE i \in starts : \A k \in starts : i <= k,
            last |-> CHOOSE j \in closes : \A k \in closes : k <= j]

\* json_match.group()
group(content, m) == SubSeq(content, m.first, m.last)

\* The extraction the stages apply to the Generator's text: the payload, NotFound
\* (no match, the logged branch), or JSONDecodeError (raised by json.loads).
NotFound == [kind |-> "NotFound", val |-> EmptyDict]

extract(content) ==
  LET json_match == re_search(content)
  IN  IF json_match.found THEN json_loads(group(content, json_match)) ELSE NotFound


(***************************************************************************)
(* The stages and their inputs.                                            *)
(***************************************************************************)
Variants == {"primary", "autogen", "langgraph"}
Stages == {"ingestion", "scoring", "active_outreach", "nurture"}
Routes == Stages \cup {"send"}

\* The routes of a deployment that callers POST to.  Of the langgraph example
\* the send router is the one studied.
Deployed(v) == IF v = "langgraph" THEN {"send"} ELSE Routes
OutreachStages == {"active_outreach", "nurture"}

AGENT_OUTPUT_TOPIC == "AGENT_OUTPUT_TOPIC"

\* The LeadRecord of the k-th item of a batch.
LeadAt(k) == [name |-> "lead", no |-> k]

\* An Evaluation as the prompt of the scoring stage asks for it.
EvaluationAE == JsonObject([score |-> 90, next_step |-> "Actively Engage",
                            talking_points |-> <<"point", "point", "point">>])
EvaluationNu == JsonObject([score |-> 45, next_step |-> "Nurture",
                            talking_points |-> <<"point", "point", "point">>])
\* A context that decodes to an object without the key next_step.
EvaluationNoStep == JsonObject([score |-> 90,
                                talking_points |-> <<"point", "point", "point">>])

\* The contexts an item POSTed to a route may carry; an item may also carry none.
Contexts(route) ==
  CASE route = "ingestion" -> {}
    [] route = "scoring" -> {<<"w">>}
    [] route = "active_outreach" -> {json_dumps(EvaluationAE), json_dumps(EvaluationNoStep), <<"w">>}
    [] route = "nurture" -> {json_dumps(EvaluationNu), <<"w">>}
    [] route = "send" -> {<<"{", "e[", "{", "tsb", "}", "]", "ctAE", "}">>, <<"w">>}

\* An item is a dict with the key lead_data and, possibly, the key context.
Item(lead, ctx) == [lead_data |-> lead, context |-> ctx]
ItemNoContext(lead) == [lead_data |-> lead]

\* The items about lead k a caller POSTs to a route.  At the scoring route
\* the context only enters the prompt, and the caller always sends one.
ItemsAt(route, k) ==
  (IF route = "scoring" THEN {} ELSE {ItemNoContext(LeadAt(k))})
    \cup {Item(LeadAt(k), c) : c \in Contexts(route)}

\* The JSON arrays a caller POSTs to a route: item k is about lead k.
BatchesOf(route) ==
  UNION {{b \in [1..n -> UNION {ItemsAt(route, k) : k \in 1..n}] :
            \A k \in 1..n : b[k] \in ItemsAt(route, k)} : n \in 0..MaxBatch}

Batches == [route \in Routes |-> BatchesOf(route)]

\* item.get(key, default)
ItemGet(item, key, default) == IF key \in DOMAIN item THEN item[key] ELSE default

(***************************************************************************)
(* The texts the Generator is taken to return at a stage: what the prompt  *)
(* asks for, and the ways of missing it.                                   *)
(***************************************************************************)
Draft == <<"{", "tsb", "}">>

TextsOf(stage) ==
  CASE stage = "ingestion" -> {<<"w">>, <<>>}
    [] stage = "scoring" ->
         {<<"{", "s90", "nAE", "t3", "}">>, <<"{", "s45", "nNu", "t3", "}">>,
          <<"{", "s101", "nMaybe", "t2", "}">>, <<"w">>, <<"{", "w", "}">>, <<>>}
    [] stage = "active_outreach" ->
         {Draft, <<"w">> \o Draft \o <<"w">>, <<"{", "}">>, <<"w">>, <<"{", "w", "}">>,
          <<>>}
    [] stage = "nurture" ->
         {<<"{", "e[">> \o Draft \o Draft \o Draft \o <<"]", "}">>,
          <<"{", "e[">> \o Draft \o <<"]", "}">>, <<"{", "e[", "]", "}">>, <<"{", "}">>, <<"w">>, <<"{", "w", "}">>, <<>>}

GeneratedTexts == [stage \in Stages |-> TextsOf(stage)]

(***************************************************************************)
(* A unit of work: one task running start_agent_flow.                      *)
(*   pc: "received"   created, not started                                 *)
(*       "generating" suspended in the await of the Generator call         *)
(*       "emitted"    returned after calling produce                       *)
(*       "dropped"    returned after logging "No JSON found"               *)
(*       "raised"     ended by an exception nothing catches                *)
(***************************************************************************)
NoEvaluation == [kind |-> "none", val |-> EmptyDict]

\* The flow awaited in the handler instead of scheduled: it has run when the
\* handler goes on.
await_flow(stage, lead_details, context, lead_evaluation, req, idx) ==
  [stage |-> stage, lead_details |-> lead_details, context |-> context,
   lead_evaluation |-> lead_evaluation, req |-> req, idx |-> idx,
   pc |-> "generating", reply |-> <<>>, error |-> ""]

\* asyncio.create_task(start_agent_flow(...)): the task exists and has not run yet.
create_task(stage, lead_details, context, lead_evaluation, req, idx) ==
  [stage |-> stage, lead_details |-> lead_details, context |-> context,
   lead_evaluation |-> lead_evaluation, req |-> req, idx |-> idx,
   pc |-> "received", reply |-> <<>>, error |-> ""]

\* message.pretty_repr(): a title line, then the content of the message.
pretty_repr(reply) == <<"hdr">> \o reply

\* The text a stage works on: the last message of the Generator's answer.
Content(v, reply) == IF v = "primary" THEN pretty_repr(reply) ELSE reply

\* The outcome of the part of start_agent_flow after the await:
\* [pc, error, produced, context].
Emit(context) == [pc |-> "emitted", error |-> "", produced |-> TRUE, context |-> context]
\* The branches without a payload publishing an empty one.
DropFailEmpty == Emit(<<"{", "}">>)
RaiseFailEmpty(e) == Emit(<<"{", "}">>)
Drop == [pc |-> "dropped", error |-> "", produced |-> FALSE, context |-> <<>>]
Raise(e) == [pc |-> "raised", error |-> e, produced |-> FALSE, context |-> <<>>]

\* The batch published without reading the Evaluation.
EmailBatchUntagged(emails, lead_evaluation) ==
  JsonObject([emails |-> emails, campaign_type |-> None])

\* { "emails": emails, "campaign_type": lead_evaluation.get("next_step", None) }
EmailBatch(emails, lead_evaluation) ==
  JsonObject([emails |-> emails,
              campaign_type |-> DictGet(lead_evaluation.val, "next_step")])

ingestion_flow(v, u, reply) == Emit(Content(v, reply))

\* The text of the Generator published as it is.
scoring_flow_raw(v, u, reply) ==
  LET lead_evaluation == extract(Content(v, reply))
  IN  CASE lead_evaluation.kind = "NotFound" -> Drop
        [] lead_evaluation.kind = "JSONDecodeError" -> Raise("JSONDecodeError")
        [] OTHER -> Emit(Content(v, reply))

scoring_flow(v, u, reply) ==
  LET lead_evaluation == extract(Content(v, reply))
  IN  CASE lead_evaluation.kind = "NotFound" -> Drop
        [] lead_evaluation.kind = "JSONDecodeError" -> Raise("JSONDecodeError")
        [] OTHER -> Emit(json_dumps(lead_evaluation))

\* The payload published twice in the emails list.
active_outreach_publish_pair(u, email_details) ==
  IF u.lead_evaluation.kind # "object" THEN Raise("AttributeError")
  ELSE Emit(json_dumps(EmailBatch(<<email_details, email_details>>, u.lead_evaluation)))

\* What the outreach stages do with the parsed payload.
active_outreach_publish(u, email_details) ==
  IF u.lead_evaluation.kind # "object" THEN Raise("AttributeError")
  ELSE Emit(json_dumps(EmailBatch(<<email_details>>, u.lead_evaluation)))

\* json_object.get("emails", []) in the place of json_object["emails"].
nurture_publish_get(u, json_object) ==
  IF json_object.kind # "object" THEN Raise("TypeError")
  ELSE IF u.lead_evaluation.kind # "object" THEN Raise("AttributeError")
  ELSE Emit(json_dumps(EmailBatch(IF "emails" \in DOMAIN json_object.val
                                    THEN json_object.val["emails"] ELSE <<>>,
                                  u.lead_evaluation)))

nurture_publish(u, json_object) ==
  IF json_object.kind # "object" THEN Raise("TypeError")
  ELSE IF "emails" \notin DOMAIN json_object.val THEN Raise("KeyError")
  ELSE IF u.lead_evaluation.kind # "object" THEN Raise("AttributeError")
  ELSE Emit(json_dumps(EmailBatch(json_object.val["emails"], u.lead_evaluation)))

\* The primary routers search the text for the payload; the autogen ones parse
\* the whole text.
outreach_payload(v, reply) ==
  IF v = "primary" THEN extract(Content(v, reply)) ELSE json_loads(Content(v, reply))

active_outreach_flow(v, u, reply) ==
  LET email_details == outreach_payload(v, reply)
  IN  CASE email_details.kind = "NotFound" -> Drop
        [] email_details.kind = "JSONDecodeError" -> Raise("JSONDecodeError")
        [] OTHER -> active_outreach_publish(u, email_details)

nurture_flow(v, u, reply) ==
  LET json_object == outreach_payload(v, reply)
  IN  CASE json_object.kind = "NotFound" -> Drop
        [] json_object.kind = "JSONDecodeError" -> Raise("JSONDecodeError")
        [] OTHER -> nurture_publish(u, json_object)

start_agent_flow(v, u, reply) ==
  CASE u.stage = "ingestion" -> ingestion_flow(v, u, reply)
    [] u.stage = "scoring" -> scoring_flow(v, u, reply)
    [] u.stage = "active_outreach" -> active_outreach_flow(v, u, reply)
    [] u.stage = "nurture" -> nurture_flow(v, u, reply)

\* The envelope with a field added to the lead.
EnvelopeEnriched(i, u, context) ==
  [topic |-> AGENT_OUTPUT_TOPIC, context |-> context,
   lead_data |-> DictPut(u.lead_details, "enriched", TRUE), by |-> i,
   stage_origin |-> u.stage]

\* The envelope published to a topic of the stage.
EnvelopePerStage(i, u, context) ==
  [topic |-> u.stage, context |-> context, lead_data |-> u.lead_details, by |-> i,
   stage_origin |-> u.stage]

\* produce(AGENT_OUTPUT_TOPIC, { "context": ..., "lead_data": lead_details })
Envelope(i, u, context) ==
  [topic |-> AGENT_OUTPUT_TOPIC, context |-> context, lead_data |-> u.lead_details,
   by |-> i, stage_origin |-> u.stage]

(***************************************************************************)
(* The route handlers.  The body of a handler has one await, request.json, *)
(* before its loop; the loop and the return run without suspension.        *)
(***************************************************************************)
AckBody(route) ==
  CASE route = "ingestion" -> "Lead Ingestion Agent Started"
    [] route = "scoring" -> "Lead Scoring Agent Started"
    [] route = "active_outreach" -> "Actively Engage Agent Started"
    [] route = "nurture" -> "Nurture Campaign Agent Started"
    [] route = "send" -> "Send Email Started"

\* What one pass of the loop does with an item: the task it creates (none at the
\* send route), or the exception it raises.
LoopBody(route, item, req, idx) ==
  LET lead_details == ItemGet(item, "lead_data", EmptyDict)
      context == ItemGet(item, "context", <<>>)
  IN  CASE route = "ingestion" ->
             [raised |-> FALSE,
              tasks |-> <<create_task(route, lead_details, <<>>, NoEvaluation, req, idx)>>]
        [] route = "scoring" ->
             [raised |-> FALSE,
              tasks |-> <<create_task(route, lead_details, context, NoEvaluation, req, idx)>>]
        [] route \in OutreachStages ->
             LET lead_evaluation == json_loads(context)
             IN  IF lead_evaluation.kind = "JSONDecodeError"
                   THEN [raised |-> TRUE, tasks |-> <<>>]
                   ELSE [raised |-> FALSE,
                         tasks |-> <<create_task(route, lead_details, <<>>,
                                                 lead_evaluation, req, idx)>>]
        [] route = "send" ->
             \* the langgraph example decodes the context; the primary router only prints
             IF variant = "langgraph"
                  /\ ("context" \notin DOMAIN item
                        \/ json_loads(item["context"]).kind = "JSONDecodeError")
               THEN [raised |-> TRUE, tasks |-> <<>>]
               ELSE [raised |-> FALSE, tasks |-> <<>>]

\* The loop left after its first pass (the return inside the loop).
ReturnInLoop(route, data, req, idx) ==
  IF idx > Len(data) THEN [raised |-> FALSE, tasks |-> <<>>]
  ELSE LoopBody(route, data[idx], req, idx)

\* The loop catching the exception of an item and going on with the next.
RECURSIVE ForEachItemSkipping(_, _, _, _)
ForEachItemSkipping(route, data, req, idx) ==
  IF idx > Len(data) THEN [raised |-> FALSE, tasks |-> <<>>]
  ELSE LET one == LoopBody(route, data[idx], req, idx)
           rest == ForEachItemSkipping(route, data, req, idx + 1)
       IN  [raised |-> one.raised \/ rest.raised, tasks |-> one.tasks \o rest.tasks]

\* for item in data: ...   from item idx on; an exception ends the loop.
RECURSIVE ForEachItem(_, _, _, _)
ForEachItem(route, data, req, idx) ==
  IF idx > Len(data) THEN [raised |-> FALSE, tasks |-> <<>>]
  ELSE LET one == LoopBody(route, data[idx], req, idx)
       IN  IF one.raised THEN one
           ELSE LET rest == ForEachItem(route, data, req, idx + 1)
                IN  [raised |-> rest.raised, tasks |-> one.tasks \o rest.tasks]

\* The response telling the caller how many items were scheduled.
handle_post_counting(route, data, req) ==
  LET loop == ForEachItem(route, data, req, 1)
  IN  [tasks |-> loop.tasks,
       status |-> IF loop.raised THEN 500 ELSE 200 + Len(loop.tasks),
       body |-> IF loop.raised THEN "Internal Server Error" ELSE AckBody(route)]

\* The POST branch of a handler: the tasks it leaves scheduled and its response.
\* An exception that leaves the handler is answered with status 500.
handle_post(route, data, req) ==
  LET loop == ForEachItem(route, data, req, 1)
  IN  [tasks |-> loop.tasks,
       status |-> IF loop.raised THEN 500 ELSE 200,
       body |-> IF loop.raised THEN "Internal Server Error" ELSE AckBody(route)]

(***************************************************************************)
(* The GET branch of a handler ("for local testing").  The primary routers *)
(* work on an item written in the code; the autogen routers have no GET    *)
(* branch: the handler returns None, which is answered 200 with the JSON   *)
(* body null.                                                              *)
(***************************************************************************)
TestLead == [name |-> "lead", no |-> 0]
TestEvaluationAE == JsonObject([score |-> "90", next_step |-> "Actively Engage",
                                talking_points |-> <<"point", "point", "point">>])
TestEvaluationNu == JsonObject([score |-> "45", next_step |-> "Nurture",
                                talking_points |-> <<"point", "point", "point", "point">>])

\* The item of the GET branch of a primary stage router.
TestItem(route) ==
  CASE route = "ingestion" -> [lead_data |-> TestLead]
    [] route = "scoring" -> [lead_data |-> TestLead, content |-> <<"hdr", "w">>]
    [] route = "active_outreach" ->
         [lead_data |-> TestLead, lead_evaluation |-> TestEvaluationAE]
    [] route = "nurture" -> [lead_data |-> TestLead, lead_evaluation |-> TestEvaluationNu]

GetBody(route) == IF route = "send" THEN "Send Email Agent Started" ELSE AckBody(route)

\* The GET branch of the scoring router with its create_task not commented out.
handle_get_scheduling(route, req) ==
  IF variant = "autogen" /\ route \in Stages
    THEN [data |-> <<>>, tasks |-> <<>>, status |-> 200, body |-> None]
  ELSE IF route = "send"
    THEN [data |-> <<>>, tasks |-> <<>>, status |-> 200, body |-> GetBody(route)]
  ELSE [data |-> <<TestItem(route)>>,
        tasks |-> <<create_task(route, TestLead,
                                ItemGet(TestItem(route), "content", <<>>),
                                ItemGet(TestItem(route), "lead_evaluation", NoEvaluation),
                                req, 1)>>,
        status |-> 200, body |-> GetBody(route)]

handle_get(route, req) ==
  IF variant = "autogen" /\ route \in Stages
    THEN [data |-> <<>>, tasks |-> <<>>, status |-> 200, body |-> None]
  ELSE IF route = "send"
    THEN [data |-> <<>>, tasks |-> <<>>, status |-> 200, body |-> GetBody(route)]
  ELSE [data |-> <<TestItem(route)>>,
        tasks |-> IF route = "scoring" THEN <<>>
                  ELSE <<create_task(route, TestLead, <<>>,
                                     ItemGet(TestItem(route), "lead_evaluation",
                                             NoEvaluation), req, 1)>>,
        status |-> 200, body |-> GetBody(route)]

Request(route, data, src, h) ==
  [route |-> route, method |-> "POST", data |-> data, src |-> src,
   status |-> h.status, body |-> h.body]

\* A POST of the batch data to a route; src is the position on the bus of the
\* envelope the batch was made from, 0 for a batch of an outside caller.
Handle(route, data, src) ==
  LET req == Len(requests) + 1
      h == handle_post(route, data, req)
  IN  /\ Len(units) + Len(h.tasks) <= MaxUnits
      /\ units' = units \o h.tasks
      /\ requests' = Append(requests, Request(route, data, src, h))

\* One batch arrives from an outside caller; every other batch is made by the
\* consumer from an envelope on the bus.
Post(data) ==
  /\ requests = <<>>
  /\ Handle(entry, data, 0)
  /\ UNCHANGED <<variant, entry, bus, consumed, text, result, lookups>>

\* A GET of the entry route by an outside caller, in the place of the batch.
Get ==
  LET req == Len(requests) + 1
      h == handle_get(entry, req)
  IN  /\ requests = <<>>
      /\ units' = units \o h.tasks
      /\ requests' = Append(requests,
                            [route |-> entry, method |-> "GET", data |-> h.data,
                             src |-> 0, status |-> h.status, body |-> h.body])
      /\ UNCHANGED <<variant, entry, bus, consumed, text, result, lookups>>

(***************************************************************************)
(* The consumer between the stages: it takes an envelope from the bus and  *)
(* POSTs it, as a batch of one item, to the route of the next stage.       *)
(***************************************************************************)
\* The two outreach stages exchanged.
BranchSwapped(next_step) ==
  CASE next_step = "Actively Engage" -> "nurture"
    [] next_step = "Nurture" -> "active_outreach"
    [] OTHER -> "none"

\* The branch policy: a function of the next_step of the Evaluation.
Branch(next_step) ==
  CASE next_step = "Actively Engage" -> "active_outreach"
    [] next_step = "Nurture" -> "nurture"
    [] OTHER -> "none"

NextRoute(envelope) ==
  CASE envelope.stage_origin = "ingestion" -> "scoring"
    [] envelope.stage_origin = "scoring" ->
         LET evaluation == json_loads(envelope.context)
         IN  IF evaluation.kind = "object"
               THEN Branch(DictGet(evaluation.val, "next_step"))
               ELSE "none"
    [] OTHER -> "send"

Deliver(b) ==
  /\ b \in 1..Len(bus)
  /\ b \notin consumed
  /\ consumed' = consumed \cup {b}
  /\ LET route == NextRoute(bus[b])
     IN  IF route = "none" THEN UNCHANGED <<units, requests>>
         ELSE Handle(route, <<Item(bus[b].lead_data, bus[b].context)>>, b)
  /\ UNCHANGED <<variant, entry, bus, text, result, lookups>>

(***************************************************************************)
(* The steps of a unit of work.                                            *)
(***************************************************************************)
\* The autogen routers of these stages call the Generator through one
\* RoundRobinGroupChat per router (team), made when the module is loaded and
\* used by every unit of the stage; the scoring router calls its agent.
TeamStages == {"ingestion", "active_outreach", "nurture"}

\* team.run is in progress for another unit of the stage of unit i.
TeamRunning(i) ==
  /\ variant = "autogen"
  /\ units[i].stage \in TeamStages
  /\ \E j \in 1..Len(units) :
       j # i /\ units[j].stage = units[i].stage /\ units[j].pc = "generating"

\* The tasks run in the order of their creation, each after the one before
\* it has ended.
StartInOrder(i) ==
  /\ i \in 1..Len(units)
  /\ units[i].pc = "received"
  /\ ~TeamRunning(i)
  /\ \A j \in 1..(i - 1) : units[j].pc \in {"emitted", "dropped", "raised"}
  /\ units' = [units EXCEPT ![i].pc = "generating"]
  /\ UNCHANGED <<variant, entry, bus, consumed, requests, text, result, lookups>>

\* The task left waiting: it is never run.
StartSuspended(i) ==
  /\ i \in 1..Len(units)
  /\ units[i].pc = "received"
  /\ ~TeamRunning(i)
  /\ UNCHANGED vars

\* The task runs for the first time: it builds the prompt and suspends in the
\* await of the Generator call.
Start(i) ==
  /\ i \in 1..Len(units)
  /\ units[i].pc = "received"
  /\ ~TeamRunning(i)
  /\ units' = [units EXCEPT ![i].pc = "generating"]
  /\ UNCHANGED <<variant, entry, bus, consumed, requests, text, result, lookups>>

\* The flow calling produce two times.
GeneratorReturnsTwice(i, reply) ==
  /\ i \in 1..Len(units)
  /\ units[i].pc = "generating"
  /\ LET out == start_agent_flow(variant, units[i], reply)
         envelope == Envelope(i, units[i], out.context)
     IN  /\ units' = [units EXCEPT ![i].pc = out.pc, ![i].reply = reply,
                                   ![i].error = out.error]
         /\ bus' = IF out.produced THEN bus \o <<envelope, envelope>> ELSE bus
  /\ UNCHANGED <<variant, entry, consumed, requests, text, result, lookups>>

\* The task runs for the first time while the team of its stage is running:
\* team.run raises ValueError ("The team is already running") at once.
StartWhileRunning(i) ==
  /\ i \in 1..Len(units)
  /\ units[i].pc = "received"
  /\ TeamRunning(i)
  /\ units' = [units EXCEPT ![i].pc = "raised", ![i].error = "ValueError"]
  /\ UNCHANGED <<variant, entry, bus, consumed, requests, text, result, lookups>>

\* The flow suspended once more between the return of the Generator call and
\* produce: the tasks that are ready run before the envelope is published.
GeneratorReturnsYielding(i, reply) ==
  /\ i \in 1..Len(units)
  /\ units[i].pc = "generating"
  /\ LET out == start_agent_flow(variant, units[i], reply)
     IN  /\ units' = [j \in 1..Len(units) |->
                        IF j = i
                          THEN [units[j] EXCEPT !.pc = out.pc, !.reply = reply,
                                                !.error = out.error]
                        ELSE IF units[j].pc = "received"
                          THEN [units[j] EXCEPT !.pc = "generating"]
                        ELSE units[j]]
         /\ bus' = IF out.produced THEN Append(bus, Envelope(i, units[i], out.context))
                   ELSE bus
  /\ UNCHANGED <<variant, entry, consumed, requests, text, result, lookups>>

\* The Generator call returns a message with the content reply; the rest of
\* start_agent_flow runs without suspension.
GeneratorReturns(i, reply) ==
  /\ i \in 1..Len(units)
  /\ units[i].pc = "generating"
  /\ LET out == start_agent_flow(variant, units[i], reply)
     IN  /\ units' = [units EXCEPT ![i].pc = out.pc, ![i].reply = reply,
                                   ![i].error = out.error]
         /\ bus' = IF out.produced THEN Append(bus, Envelope(i, units[i], out.context))
                   ELSE bus
  /\ UNCHANGED <<variant, entry, consumed, requests, text, result, lookups>>

\* The failed Generator call retried: the unit starts again.
GeneratorFailsRetry(i) ==
  /\ i \in 1..Len(units)
  /\ units[i].pc = "generating"
  /\ units' = [units EXCEPT ![i].pc = "received"]
  /\ UNCHANGED <<variant, entry, bus, consumed, requests, text, result, lookups>>

\* The Generator call raises (the model cannot be reached): nothing catches it.
GeneratorFails(i) ==
  /\ i \in 1..Len(units)
  /\ units[i].pc = "generating"
  /\ units' = [units EXCEPT ![i].pc = "raised", ![i].error = "GenerationFailed"]
  /\ UNCHANGED <<variant, entry, bus, consumed, requests, text, result, lookups>>

Pending == [kind |-> "pending", val |-> EmptyDict]

Init ==
  /\ variant \in Variants
  /\ entry \in Deployed(variant)
  /\ units = <<>>
  /\ bus = <<>>
  /\ consumed = {}
  /\ requests = <<>>
  /\ text = <<>>
  /\ result = Pending
  /\ lookups = <<>>

Next ==
  \/ \E data \in Batches[entry] : Post(data)
  \/ Get
  \/ \E b \in 1..Len(bus) : Deliver(b)
  \/ \E i \in 1..Len(units) : Start(i)
  \/ \E i \in 1..Len(units) : StartWhileRunning(i)
  \/ \E i \in 1..Len(units) : \E reply \in GeneratedTexts[units[i].stage] :
       GeneratorReturns(i, reply)
  \/ \E i \in 1..Len(units) : GeneratorFails(i)

Spec == Init /\ [][Next]_vars

(***************************************************************************)
(* Scheduling.  The event loop runs every task that is ready, and a        *)
(* Generator call that is awaited returns or raises.                       *)
(***************************************************************************)
\* The first run of task i.
Run(i) == Start(i) \/ StartWhileRunning(i)

\* The Generator call of task i comes back.
Resume(i) ==
  /\ i \in 1..Len(units)
  /\ \/ \E reply \in GeneratedTexts[units[i].stage] : GeneratorReturns(i, reply)
     \/ GeneratorFails(i)

FairSpec ==
  Spec /\ \A i \in 1..MaxUnits : WF_vars(Run(i)) /\ WF_vars(Resume(i))

(***************************************************************************)
(* The extraction on its own, over every text of up to MaxTextLen tokens.  *)
(***************************************************************************)
Alphabet == {"{", "}", "w", "tsb", "e[", "]"}

Texts == UNION {[1..n -> Alphabet] : n \in 0..MaxTextLen}

InitExtract ==
  /\ text \in Texts
  /\ result = Pending
  /\ variant = "primary"
  /\ entry = "scoring"
  /\ units = <<>>
  /\ bus = <<>>
  /\ consumed = {}
  /\ requests = <<>>
  /\ lookups = <<>>

Extract ==
  /\ result = Pending
  /\ result' = extract(text)
  /\ UNCHANGED <<variant, entry, units, bus, consumed, requests, text, lookups>>

NextExtract == Extract

SpecExtract == InitExtract /\ [][NextExtract]_vars

(***************************************************************************)
(* The lookup tools (utils/agent_tools) and their invocation by the        *)
(* Generator while a unit is suspended in the Generator call.  What a tool *)
(* meets outside the program is its world: the outcome of the HTTP fetch,  *)
(* or of the model call of a tool that is mocked by a model.               *)
(***************************************************************************)
WebsiteTool == "get_company_website_information"
ModelTools ==
  {"get_salesforce_data", "get_enriched_lead_data", "get_recent_linkedin_posts",
   "find_relevant_content"}

\* Every tool of agent_tools given to the agent of every stage.
tools_any(stage) == {WebsiteTool} \cup ModelTools

\* tools = [...] of the router of the stage.
tools(stage) ==
  CASE stage = "ingestion" ->
         {WebsiteTool, "get_salesforce_data", "get_enriched_lead_data"}
    [] stage = "scoring" -> {}
    [] stage = "active_outreach" ->
         {WebsiteTool, "get_salesforce_data", "get_enriched_lead_data",
          "get_recent_linkedin_posts"}
    [] stage = "nurture" ->
         {WebsiteTool, "get_salesforce_data", "get_enriched_lead_data",
          "get_recent_linkedin_posts", "find_relevant_content"}

\* A page: whether html.parser accepts the markup, and the lines of its text.
NoPage == [parse |-> "none", lines |-> <<>>]
Pages == {[parse |-> "ok", lines |-> <<"line", "", " ", "line">>],
          [parse |-> "rejected", lines |-> <<>>]}

\* requests.get returns a response, or raises a RequestException.
FetchOutcomes ==
  {[kind |-> "response", status_code |-> 200, page |-> p] : p \in Pages}
    \cup {[kind |-> "response", status_code |-> s, page |-> NoPage] : s \in {204, 404}}
    \cup {[kind |-> "RequestException", status_code |-> 0, page |-> NoPage]}

\* model.invoke returns a message, or raises.
InvokeOutcomes ==
  {[kind |-> k, status_code |-> 0, page |-> NoPage] : k \in {"AIMessage", "APIError"}}

Worlds(tool) == IF tool = WebsiteTool THEN FetchOutcomes ELSE InvokeOutcomes

\* The outcome of a tool body: a text, None, or an exception that leaves it.
ToolText(lines) == [kind |-> "text", lines |-> lines, error |-> ""]
ToolNone == [kind |-> "None", lines |-> <<>>, error |-> ""]
ToolRaised(e) == [kind |-> "raised", lines |-> <<>>, error |-> e]

\* "\n".join([line for line in text.split("\n") if line.strip()])
remove_empty_lines(lines) ==
  LET NonBlank(line) == line \notin {"", " "}
  IN  SelectSeq(lines, NonBlank)

get_company_website_information(fetch) ==
  IF fetch.kind = "RequestException" THEN ToolNone
  ELSE IF fetch.status_code = 200
    THEN IF fetch.page.parse = "rejected" THEN ToolRaised("ParserRejectedMarkup")
         ELSE ToolText(remove_empty_lines(fetch.page.lines))
  ELSE ToolNone

\* data = model.invoke(...); return response    -- response is not bound
model_tool(invoke) ==
  IF invoke.kind = "APIError" THEN ToolRaised("APIError") ELSE ToolRaised("NameError")

call_tool(tool, world) ==
  IF tool = WebsiteTool THEN get_company_website_information(world)
  ELSE model_tool(world)

ToolErrors == {"ParserRejectedMarkup", "APIError", "NameError"}

\* An exception of a tool body ending the unit that called the Generator.
InvokeToolUnhandled(i, tool, world) ==
  LET outcome == call_tool(tool, world)
  IN  /\ i \in 1..Len(units)
      /\ units[i].pc = "generating"
      /\ tool \in tools(units[i].stage)
      /\ Len(lookups) < MaxLookups
      /\ lookups' = Append(lookups, [by |-> i, tool |-> tool, world |-> world,
                                     outcome |-> outcome])
      /\ units' = IF outcome.kind = "raised"
                    THEN [units EXCEPT ![i].pc = "raised", ![i].error = outcome.error]
                    ELSE units
      /\ UNCHANGED <<variant, entry, bus, consumed, requests, text, result>>

\* The Generator of unit i invokes a tool.  The agent (create_react_agent, the
\* AssistantAgent) hands the result, or the error of the tool as a message, back to
\* the model: the unit stays suspended in the Generator call.
InvokeTool(i, tool, world) ==
  /\ i \in 1..Len(units)
  /\ units[i].pc = "generating"
  /\ tool \in tools(units[i].stage)
  /\ Len(lookups) < MaxLookups
  /\ lookups' = Append(lookups, [by |-> i, tool |-> tool, world |-> world,
                                 outcome |-> call_tool(tool, world)])
  /\ UNCHANGED <<variant, entry, units, bus, consumed, requests, text, result>>

\* The item of the unit whose Generator call is studied.
FirstItem(stage) ==
  CASE stage = "ingestion" -> ItemNoContext(LeadAt(1))
    [] stage = "scoring" -> Item(LeadAt(1), <<"w">>)
    [] stage = "active_outreach" -> Item(LeadAt(1), json_dumps(EvaluationAE))
    [] stage = "nurture" -> Item(LeadAt(1), json_dumps(EvaluationNu))

\* One request answered, its unit suspended in the Generator call.
InitTools ==
  /\ variant \in {"primary", "autogen"}
  /\ entry \in Stages
  /\ LET data == <<FirstItem(entry)>>
         h == handle_post(entry, data, 1)
     IN  /\ requests = <<Request(entry, data, 0, h)>>
         /\ units = <<[h.tasks[1] EXCEPT !.pc = "generating"]>>
  /\ bus = <<>>
  /\ consumed = {}
  /\ text = <<>>
  /\ result = Pending
  /\ lookups = <<>>

NextTools ==
  \/ \E i \in 1..Len(units) : \E tool \in tools(units[i].stage) :
       \E world \in Worlds(tool) : InvokeTool(i, tool, world)
  \/ \E i \in 1..Len(units) : \E reply \in GeneratedTexts[units[i].stage] :
       GeneratorReturns(i, reply)
  \/ \E i \in 1..Len(units) : GeneratorFails(i)

SpecTools == InitTools /\ [][NextTools]_vars

(***************************************************************************)
(* Vocabulary of the properties.                                           *)
(***************************************************************************)
UnitIds == 1..Len(units)

\* The Generator call of the unit has returned a message.
Returned(u) ==
  u.pc \in {"emitted", "dropped", "raised"} /\ u.error \notin {"GenerationFailed", "ValueError"}

\* The unit has ended without an envelope: it logged and returned, or it raised.
EndedDropped(u) == u.pc \in {"dropped", "raised"}

\* produce has been called by unit i.
Published(i) == \E b \in 1..Len(bus) : bus[b].by = i

\* A batch made from an envelope of unit i has reached a route.
Forwarded(i) ==
  \E r \in 1..Len(requests) : requests[r].src # 0 /\ bus[requests[r].src].by = i

UnitsOf(r) == {i \in UnitIds : units[i].req = r}

ExtractingStages == {"scoring", "active_outreach", "nurture"}

BraceFree(s) == \A k \in 1..Len(s) : s[k] \notin {"{", "}"}

\* The Evaluation of the data model: score in 0..100, next_step one of the two
\* literals, at least three talking points.
ValidEvaluation(d) ==
  /\ "score" \in DOMAIN d /\ d["score"] \in 0..100
  /\ "next_step" \in DOMAIN d /\ d["next_step"] \in {"Nurture", "Actively Engage"}
  /\ "talking_points" \in DOMAIN d /\ Len(d["talking_points"]) >= 3

(***************************************************************************)
(* C1: a Scoring unit whose extracted payload has a score outside 0..100,  *)
(* a next_step other than the two literals, or fewer than 3 talking points *)
(* ends dropped and never calls produce.                                   *)
(***************************************************************************)
C1_ScoringValidationDrops ==
  \A i \in UnitIds :
    LET u == units[i]
        payload == extract(Content(variant, u.reply))
    IN  (u.stage = "scoring" /\ Returned(u) /\ payload.kind = "object"
           /\ ~ValidEvaluation(payload.val))
          => (EndedDropped(u) /\ ~Published(i))

(***************************************************************************)
(* C2: every Evaluation envelope of Scoring the consumer has taken from    *)
(* the bus has given exactly one unit of work at an outreach stage.        *)
(***************************************************************************)
OutreachUnitsFor(b) ==
  {i \in UnitIds : units[i].stage \in OutreachStages /\ requests[units[i].req].src = b}

ValidItem(route, item) ==
  (route \in OutreachStages \/ (route = "send" /\ variant = "langgraph")) =>
    ("context" \in DOMAIN item /\ json_loads(item["context"]).kind # "JSONDecodeError")

ValidBatch(route, data) == \A k \in 1..Len(data) : ValidItem(route, data[k])

Carries(u, route, item) ==
  /\ u.stage = route
  /\ u.lead_details = item["lead_data"]
  /\ route = "scoring" => u.context = ItemGet(item, "context", <<>>)
  /\ route \in OutreachStages => u.lead_evaluation = json_loads(item["context"])

C3_BatchFanOut ==
  \A r \in 1..Len(requests) :
    LET q == requests[r]
    IN  (q.method = "POST" /\ q.route \in Stages /\ ValidBatch(q.route, q.data))
          => /\ Cardinality(UnitsOf(r)) = Len(q.data)
             /\ \A k \in 1..Len(q.data) :
                  \E i \in UnitsOf(r) :
                    units[i].idx = k /\ Carries(units[i], q.route, q.data[k])

C3_Witness ==
  \E r \in 1..Len(requests) :
    /\ requests[r].route \in OutreachStages
    /\ ValidBatch(requests[r].route, requests[r].data)
    /\ Len(requests[r].data) = 2
    /\ Cardinality(UnitsOf(r)) = 2

(***************************************************************************)
(* C4: in the step that answers a request, none of the units the request   *)
(* scheduled has started: the response does not wait for the Generator     *)
(* call, the extraction or the publish of any of them.                     *)
(***************************************************************************)
C4_AckBeforeWork ==
  [][\A r \in 1..Len(requests') :
       r > Len(requests) =>
         \A i \in 1..Len(units') : units'[i].req = r => units'[i].pc = "received"]_vars

C4_Witness ==
  \E r \in 1..Len(requests) :
    /\ requests[r].status = 200
    /\ UnitsOf(r) # {}
    /\ \A i \in UnitsOf(r) : units[i].pc = "received"
    /\ bus = <<>>

(***************************************************************************)
(* C5: an item that fails leaves every other item of its batch scheduled.  *)
(***************************************************************************)
C5_FailureIsolation ==
  \A r \in 1..Len(requests) :
    LET q == requests[r]
    IN  q.route \in Stages =>
          \A k \in 1..Len(q.data) :
            ValidItem(q.route, q.data[k]) => \E i \in UnitsOf(r) : units[i].idx = k

(***************************************************************************)
(* C6: from a text that is one well-formed payload between brace-free      *)
(* commentary, the extraction returns that payload; from a text with no    *)
(* "{" that has a "}" after it, it returns NotFound.                       *)
(***************************************************************************)
NoBracePair(s) == ~ \E i, j \in 1..Len(s) : i < j /\ s[i] = "{" /\ s[j] = "}"

C7_NoPayloadDrop ==
  \A i \in UnitIds :
    (units[i].stage \in ExtractingStages /\ Returned(units[i]) /\ BraceFree(units[i].reply))
      => (EndedDropped(units[i]) /\ ~Published(i) /\ ~Forwarded(i))

C7_Witness ==
  \E i \in UnitIds :
    /\ units[i].stage = "scoring"
    /\ units[i].reply = <<"w">>
    /\ units[i].pc = "dropped"
    /\ bus = <<>>

(***************************************************************************)
(* C8: when the span the search finds in the text does not parse, the unit *)
(* ends dropped, produce is not called, and the item is worked on by no    *)
(* other unit.                                                             *)
(***************************************************************************)
SpanDoesNotParse(content) ==
  LET m == re_search(content)
  IN  m.found /\ json_loads(group(content, m)).kind = "JSONDecodeError"

C9_GenerationFailureTerminal ==
  \A i \in UnitIds :
    (units[i].error = "GenerationFailed" \/ (Returned(units[i]) /\ units[i].reply = <<>>))
      => (EndedDropped(units[i]) /\ ~Published(i))

(***************************************************************************)
(* C10: every EmailBatch an outreach stage has published has at least one  *)
(* email.                                                                  *)
(***************************************************************************)
C10_NoEmptyEmailBatch ==
  \A b \in 1..Len(bus) :
    bus[b].stage_origin \in OutreachStages =>
      LET batch == json_loads(bus[b].context)
      IN  /\ batch.kind = "object"
          /\ "emails" \in DOMAIN batch.val
          /\ Len(batch.val["emails"]) >= 1

(***************************************************************************)
(* Vocabulary of the properties about published envelopes.                 *)
(***************************************************************************)
BusIds == 1..Len(bus)

\* The unit that published envelope b, and the item it was created for.
PublisherOf(b) == units[bus[b].by]
ItemOf(u) == requests[u.req].data[u.idx]

\* The payload of envelope b, decoded.
PayloadOf(b) == json_loads(bus[b].context)

\* The Evaluation an outreach unit was created with: decoded from the context
\* of the item, or the lead_evaluation of the local-test item.
EvaluationOf(item) ==
  IF "lead_evaluation" \in DOMAIN item THEN item["lead_evaluation"]
  ELSE json_loads(item["context"])

IsEmailBatch(v) ==
  v.kind = "object" /\ "emails" \in DOMAIN v.val /\ "campaign_type" \in DOMAIN v.val

(***************************************************************************)
(* C11: every EmailBatch the Nurture stage has published has exactly 3     *)
(* emails.                                                                 *)
(***************************************************************************)
C11_NurtureThreeDrafts ==
  \A b \in BusIds :
    bus[b].stage_origin = "nurture" =>
      (IsEmailBatch(PayloadOf(b)) /\ Len(PayloadOf(b).val["emails"]) = 3)

(***************************************************************************)
(* C12: every EmailBatch the Active-Outreach stage has published has       *)
(* exactly 1 email, and that email is the payload taken from the text the  *)
(* Generator returned to the unit.                                         *)
(***************************************************************************)
C12_ActiveOneDraft ==
  \A b \in BusIds :
    bus[b].stage_origin = "active_outreach" =>
      /\ IsEmailBatch(PayloadOf(b))
      /\ Len(PayloadOf(b).val["emails"]) = 1
      /\ PayloadOf(b).val["emails"][1] = outreach_payload(variant, PublisherOf(b).reply)

C12_Witness ==
  \E b \in BusIds :
    /\ bus[b].stage_origin = "active_outreach"
    /\ PublisherOf(b).reply = <<"{", "}">>
    /\ PayloadOf(b).val["emails"] = <<JsonObject(EmptyDict)>>

IsEmailDraft(v) == v.kind = "object" /\ {"to", "subject", "body"} \subseteq DOMAIN v.val

C14_EmailDraftShape ==
  \A b \in BusIds :
    bus[b].stage_origin \in OutreachStages =>
      /\ IsEmailBatch(PayloadOf(b))
      /\ \A k \in 1..Len(PayloadOf(b).val["emails"]) :
           IsEmailDraft(PayloadOf(b).val["emails"][k])

(***************************************************************************)
(* C15: the lead_data of every published envelope is the lead_data of the  *)
(* item the publishing unit was created for, and so, through every hop, it *)
(* is the lead_data of the item the outside caller submitted.              *)
(***************************************************************************)
\* The item of the outside caller's batch that envelope b descends from.
RECURSIVE SubmittedItem(_)
SubmittedItem(b) ==
  LET u == PublisherOf(b)
  IN  IF requests[u.req].src = 0 THEN ItemOf(u) ELSE SubmittedItem(requests[u.req].src)

\* The number of envelopes between the outside caller's batch and envelope b.
RECURSIVE Hops(_)
Hops(b) ==
  LET u == PublisherOf(b)
  IN  IF requests[u.req].src = 0 THEN 0 ELSE 1 + Hops(requests[u.req].src)

C15_LeadUnchanged ==
  \A b \in BusIds :
    /\ bus[b].lead_data = ItemOf(PublisherOf(b))["lead_data"]
    /\ bus[b].lead_data = SubmittedItem(b)["lead_data"]

C15_Witness ==
  \E b \in BusIds :
    /\ entry = "ingestion"
    /\ Hops(b) = 2
    /\ bus[b].stage_origin \in OutreachStages
    /\ bus[b].lead_data = LeadAt(1)

(***************************************************************************)
(* C16: no unit has called produce more than once, and no stage has        *)
(* published more envelopes than the items it has received.                *)
(***************************************************************************)
EnvelopesOf(i) == {b \in BusIds : bus[b].by = i}

\* The number of items in the requests 1..r that went to the route of the stage.
RECURSIVE ItemsReceived(_, _)
ItemsReceived(stage, r) ==
  IF r = 0 THEN 0
  ELSE ItemsReceived(stage, r - 1)
         + (IF requests[r].route = stage THEN Len(requests[r].data) ELSE 0)

C16_AtMostOneEmission ==
  /\ \A i \in UnitIds : Cardinality(EnvelopesOf(i)) <= 1
  /\ \A stage \in Stages :
       Cardinality({b \in BusIds : bus[b].stage_origin = stage})
         <= ItemsReceived(stage, Len(requests))

C16_Witness ==
  \E r \in 1..Len(requests) :
    /\ Len(requests[r].data) = 2
    /\ Cardinality(UnitsOf(r)) = 2
    /\ \A i \in UnitsOf(r) : units[i].pc = "emitted" /\ Cardinality(EnvelopesOf(i)) = 1
    /\ Len(bus) = 2

(***************************************************************************)
(* C17: a unit is created Received, goes to Generating (its prompt built)  *)
(* and from there, in the step in which the Generator returns and the text *)
(* is searched, to exactly one of Emitted and Dropped (logged or raised);  *)
(* a Generator call that raises at once ends the unit Dropped from there;  *)
(* produce is called only in the step that ends the unit Emitted, after    *)
(* the Generator has returned and, at an extracting stage, a payload was   *)
(* found; an ended unit never changes and never publishes.                 *)
(***************************************************************************)
Terminal == {"emitted", "dropped", "raised"}

\* The text of the unit gave a payload.
PayloadFound(v, u) ==
  LET payload == IF u.stage = "scoring" THEN extract(Content(v, u.reply))
                 ELSE outreach_payload(v, u.reply)
  IN  payload.kind \notin {"NotFound", "JSONDecodeError"}

C18_IngestionEmission ==
  \A b \in BusIds :
    bus[b].stage_origin = "ingestion" =>
      LET u == PublisherOf(b)
      IN  /\ Returned(u)
          /\ u.reply # <<>>
          /\ bus[b].context \in {u.reply, pretty_repr(u.reply)}
          /\ bus[b].lead_data = ItemOf(u)["lead_data"]
          /\ PayloadOf(b).kind # "object"

(***************************************************************************)
(* C19: an Evaluation envelope of Scoring with score 90, next_step         *)
(* Actively Engage and 3 talking points is delivered to Active-Outreach    *)
(* and never to Nurture; the envelope Active-Outreach then publishes with  *)
(* a draft reaches the Send route having gone through Ingestion, Scoring   *)
(* and Active-Outreach in that order, with the context {emails: [draft],   *)
(* campaign_type: Actively Engage} and the lead submitted at Ingestion.    *)
(***************************************************************************)
\* The stages that published the envelopes from the outside batch to b.
RECURSIVE StagePath(_)
StagePath(b) ==
  LET u == PublisherOf(b)
  IN  (IF requests[u.req].src = 0 THEN <<>> ELSE StagePath(requests[u.req].src))
        \o <<bus[b].stage_origin>>

HappyEvaluation(b) == bus[b].stage_origin = "scoring" /\ PayloadOf(b) = EvaluationAE

\* Envelope b of Active-Outreach was made from a happy Evaluation and a draft.
HappyOutreach(b) ==
  /\ bus[b].stage_origin = "active_outreach"
  /\ requests[PublisherOf(b).req].src # 0
  /\ HappyEvaluation(requests[PublisherOf(b).req].src)
  /\ IsEmailDraft(outreach_payload(variant, PublisherOf(b).reply))

HappyBatch ==
  JsonObject([emails |-> <<JsonObject([to |-> "to", subject |-> "subject",
                                       body |-> "body"])>>,
              campaign_type |-> "Actively Engage"])

C19_HappyPath ==
  entry = "ingestion" =>
    /\ \A b \in BusIds :
         HappyEvaluation(b) =>
           /\ \A r \in 1..Len(requests) :
                requests[r].src = b => requests[r].route = "active_outreach"
           /\ b \in consumed => Cardinality(OutreachUnitsFor(b)) = 1
    /\ \A r \in 1..Len(requests) :
         (requests[r].route = "send" /\ requests[r].src # 0
            /\ HappyOutreach(requests[r].src))
           => /\ StagePath(requests[r].src) = <<"ingestion", "scoring", "active_outreach">>
              /\ Len(requests[r].data) = 1
              /\ json_loads(requests[r].data[1]["context"]) = HappyBatch
              /\ requests[r].data[1]["lead_data"]
                   = SubmittedItem(requests[r].src)["lead_data"]

C19_Witness ==
  \E r \in 1..Len(requests) :
    /\ entry = "ingestion"
    /\ requests[r].route = "send"
    /\ requests[r].src # 0
    /\ HappyOutreach(requests[r].src)
    /\ json_loads(requests[r].data[1]["context"]) = HappyBatch
    /\ requests[r].data[1]["lead_data"] = LeadAt(1)

(***************************************************************************)
(* C20: the status and the body of the response to a POST are a function   *)
(* of the route and the batch alone, and the response recorded for a       *)
(* request never changes, whatever becomes of the units it scheduled.      *)
(***************************************************************************)
AckOf(route, data) ==
  IF ValidBatch(route, data) THEN [status |-> 200, body |-> AckBody(route)]
  ELSE [status |-> 500, body |-> "Internal Server Error"]

C20_SilentFailure ==
  [][\A r \in 1..Len(requests') :
       /\ requests'[r].method = "POST"
            => [status |-> requests'[r].status, body |-> requests'[r].body]
                 = AckOf(requests'[r].route, requests'[r].data)
       /\ r <= Len(requests) => requests'[r] = requests[r]]_vars

C20_Witness ==
  \E r \in 1..Len(requests) : \E i, j \in UnitsOf(r) :
    /\ requests[r].method = "POST"
    /\ requests[r].status = 200
    /\ requests[r].body = AckBody(requests[r].route)
    /\ units[i].pc = "emitted"
    /\ units[j].pc \in {"dropped", "raised"}

(***************************************************************************)
(* C21: every request, GET or POST, to every route of every variant is     *)
(* answered with status 200 and the plain-text acknowledgement of the      *)
(* route.                                                                  *)
(***************************************************************************)
C21_AckContract ==
  \A r \in 1..Len(requests) :
    /\ requests[r].status = 200
    /\ requests[r].body \in {AckBody(requests[r].route), GetBody(requests[r].route)}

(***************************************************************************)
(* C22: a POST to the Send route of a batch whose items carry an           *)
(* EmailBatch as context, or no context, is answered 200 and schedules no  *)
(* unit; no unit of the Send route exists and none publishes.              *)
(***************************************************************************)
SendItem(item) ==
  "context" \in DOMAIN item => IsEmailBatch(json_loads(item["context"]))

C22_SendTerminal ==
  /\ \A i \in UnitIds : units[i].stage # "send"
  /\ \A b \in BusIds : bus[b].stage_origin # "send"
  /\ \A r \in 1..Len(requests) :
       (/\ requests[r].route = "send"
        /\ requests[r].method = "POST"
        /\ \A k \in 1..Len(requests[r].data) : SendItem(requests[r].data[k]))
         => (requests[r].status = 200 /\ UnitsOf(r) = {})

(***************************************************************************)
(* C23: every envelope on the bus was published to AGENT_OUTPUT_TOPIC.     *)
(***************************************************************************)
C23_SingleTopic == \A b \in BusIds : bus[b].topic = AGENT_OUTPUT_TOPIC

C23_Witness ==
  \E b1, b2, b3 \in BusIds :
    /\ bus[b1].stage_origin = "ingestion"
    /\ bus[b2].stage_origin = "scoring"
    /\ bus[b3].stage_origin \in OutreachStages

(***************************************************************************)
(* C24: the context Scoring, Active-Outreach and Nurture publish is the    *)
(* JSON encoding of the structured output of the stage; the context        *)
(* Ingestion publishes is the text of the research report, not an          *)
(* encoding.                                                               *)
(***************************************************************************)
C24_ContextEncoding ==
  \A b \in BusIds :
    IF bus[b].stage_origin = "ingestion"
      THEN bus[b].context = Content(variant, PublisherOf(b).reply)
      ELSE /\ PayloadOf(b).kind = "object"
           /\ json_dumps(PayloadOf(b)) = bus[b].context

C24_Witness ==
  \E b \in BusIds :
    /\ bus[b].stage_origin = "scoring"
    /\ PayloadOf(b) = EvaluationAE
    /\ Hops(b) = 1
    /\ PayloadOf(requests[PublisherOf(b).req].src).kind = "JSONDecodeError"

\* C24 as stated: the context every stage publishes is a JSON-encoded string.
C24_AllContextsEncoded ==
  \A b \in BusIds : PayloadOf(b).kind # "JSONDecodeError"

(***************************************************************************)
(* C25: every invocation of get_company_website_information ends with the  *)
(* cleaned text or with None, and with None whenever the fetch raised or   *)
(* the status is not a 2xx one.                                            *)
(***************************************************************************)
LookupIds == 1..Len(lookups)

C25_WebsiteFetchNeverRaises ==
  \A k \in LookupIds :
    lookups[k].tool = WebsiteTool =>
      /\ lookups[k].outcome.kind \in {"text", "None"}
      /\ (lookups[k].world.kind = "RequestException"
            \/ lookups[k].world.status_code \notin 200..299)
           => lookups[k].outcome.kind = "None"

(***************************************************************************)
(* C26: every invocation of a CRM, enrichment, social-activity or content  *)
(* tool ends with a text or with None.                                     *)
(***************************************************************************)
C26_LookupToolContract ==
  \A k \in LookupIds :
    lookups[k].tool \in ModelTools => lookups[k].outcome.kind \in {"text", "None"}

(***************************************************************************)
(* C27: a unit whose Generator had a lookup fail or return None is not     *)
(* ended by it: it has no error of a tool, and while it is suspended in    *)
(* the Generator call the Generator can still return its text.             *)
(***************************************************************************)
LookupFailed(k) == lookups[k].outcome.kind \in {"None", "raised"}

C28_EveryUnitFinishes == []<>(\A i \in UnitIds : units[i].pc \in Terminal)

C28_Witness ==
  /\ Len(units) = MaxUnits
  /\ \A i \in UnitIds : units[i].pc \in Terminal
  /\ \E i, j \in UnitIds : units[i].pc = "emitted" /\ units[j].pc = "dropped"

(***************************************************************************)
(* C29: no unit waits for the unit of another lead: a unit that has not    *)
(* run can run, and a unit suspended in the Generator call can go on,      *)
(* whatever the other units have done; so the envelopes of two leads can   *)
(* be published in either order.                                           *)
(***************************************************************************)
C29_NoOrdering ==
  \A i \in UnitIds :
    /\ units[i].pc = "received" => ENABLED Run(i)
    /\ units[i].pc = "generating" => ENABLED Resume(i)

\* The envelope of the second lead of a batch is on the bus before the one of
\* the first.
C29_Witness ==
  \E b1, b2 \in BusIds :
    /\ b1 < b2
    /\ PublisherOf(b1).req = PublisherOf(b2).req
    /\ PublisherOf(b1).idx = 2
    /\ PublisherOf(b2).idx = 1

(***************************************************************************)
(* C30: the way a unit ends is one of the ways it ends when it runs alone: *)
(* with a failed Generator call, or as its own item and the text the       *)
(* Generator returned to it decide.                                        *)
(***************************************************************************)
AloneOutcomes(u) ==
  {[pc |-> "raised", error |-> "GenerationFailed"]}
    \cup {[pc |-> start_agent_flow(variant, u, reply).pc,
            error |-> start_agent_flow(variant, u, reply).error] :
             reply \in GeneratedTexts[u.stage]}

C30_NoSharedState ==
  \A i \in UnitIds :
    units[i].pc \in Terminal
      => [pc |-> units[i].pc, error |-> units[i].error] \in AloneOutcomes(units[i])

(***************************************************************************)
(* C31: from a text with a "{" that has a "}" after it, the extraction     *)
(* parses the span from the first such "{" to the last "}" of the text,    *)
(* and nothing else; a text that holds two well-formed payloads with       *)
(* commentary between them is parsed as one span, which fails, and the     *)
(* flow publishes neither payload.                                         *)
(***************************************************************************)
\* The first "{" of s that has a "}" after it, and the last "}" of s.
FirstOpen(s) ==
  CHOOSE i \in 1..Len(s) :
    /\ s[i] = "{" /\ \E j \in (i + 1)..Len(s) : s[j] = "}"
    /\ \A k \in 1..(i - 1) : ~(s[k] = "{" /\ \E j \in (k + 1)..Len(s) : s[j] = "}")

LastClose(s) ==
  CHOOSE j \in 1..Len(s) : s[j] = "}" /\ \A k \in (j + 1)..Len(s) : s[k] # "}"

\* s holds two payloads, each a well-formed object, with commentary between.
TwoPayloads(s) ==
  \E a \in 1..Len(s) : \E b \in (a + 1)..Len(s) :
    /\ s[a] = "{" /\ s[b] = "}"
    /\ json_loads(SubSeq(s, a, b)).kind = "object"
    /\ \E c \in (b + 2)..Len(s) : \E d \in (c + 1)..Len(s) :
         /\ s[c] = "{" /\ s[d] = "}"
         /\ BraceFree(SubSeq(s, b + 1, c - 1))
         /\ json_loads(SubSeq(s, c, d)).kind = "object"

\* A unit of the scoring stage, for the flow applied to a text on its own.
ProbeUnit == create_task("scoring", LeadAt(1), <<>>, NoEvaluation, 1, 1)

C31_GreedySpan ==
  result # Pending =>
    /\ ~NoBracePair(text)
         => result = json_loads(SubSeq(text, FirstOpen(text), LastClose(text)))
    /\ TwoPayloads(text)
         => /\ result = JSONDecodeError
            /\ ~scoring_flow("primary", ProbeUnit, text).produced
            /\ scoring_flow("primary", ProbeUnit, text).pc \in {"dropped", "raised"}

C31_Witness ==
  /\ result = JSONDecodeError
  /\ text = <<"{", "tsb", "}", "w", "{", "}">>

(***************************************************************************)
(* C32: a unit is interleaved with other units only while it is suspended  *)
(* in the Generator call (where its lookups run).  The step that starts a  *)
(* unit takes it to the Generator call, or ends it, and moves no other     *)
(* unit; the step in which its Generator call comes back ends it, calls    *)
(* produce for it when it ends emitted, and moves no other unit: no unit   *)
(* takes a step between the return of the Generator call and the publish.  *)
(***************************************************************************)
\* No unit but i changes in the step.
OthersStill(i) == \A j \in UnitIds \ {i} : units'[j] = units[j]

C32_SuspensionPoints ==
  [][\A i \in UnitIds :
       /\ (units[i].pc = "received" /\ units'[i] # units[i])
            => /\ units'[i].pc \in {"generating", "raised"}
               /\ OthersStill(i)
               /\ bus' = bus
       /\ (units[i].pc = "generating" /\ units'[i] # units[i])
            => /\ units'[i].pc \in Terminal
               /\ OthersStill(i)
               /\ IF units'[i].pc = "emitted"
                    THEN /\ Len(bus') = Len(bus) + 1
                         /\ bus'[Len(bus')].by = i
                         /\ SubSeq(bus', 1, Len(bus)) = bus
                    ELSE bus' = bus
       /\ units[i].pc \in Terminal => units'[i] = units[i]]_vars

\* Two units of a batch were interleaved at the Generator call: the second
\* was started, answered and published while the first is suspended.
C32_Witness ==
  \E i, j \in UnitIds :
    /\ i < j
    /\ units[i].req = units[j].req
    /\ units[i].pc = "generating"
    /\ units[j].pc = "emitted"
    /\ Published(j)

(***************************************************************************)
(* C33: the lookups of a unit are tools of the set of its stage, and every *)
(* tool of that set can be invoked while the unit is suspended in the      *)
(* Generator call: Ingestion website, CRM and enrichment; Scoring none;    *)
(* Active-Outreach those and social; Nurture those and content search.     *)
(* A unit of the Scoring stage performs no lookup.                         *)
(***************************************************************************)
StageToolset(stage) ==
  LET base == {"get_company_website_information", "get_salesforce_data",
               "get_enriched_lead_data"}
  IN  IF stage = "scoring" THEN {}
      ELSE base
             \cup (IF stage \in OutreachStages THEN {"get_recent_linkedin_posts"} ELSE {})
             \cup (IF stage = "nurture" THEN {"find_relevant_content"} ELSE {})

C33_StageToolsets ==
  /\ \A k \in LookupIds :
       /\ units[lookups[k].by].stage # "scoring"
       /\ lookups[k].tool \in StageToolset(units[lookups[k].by].stage)
  /\ \A i \in UnitIds :
       (units[i].pc = "generating" /\ Len(lookups) < MaxLookups)
         => \A tool \in {WebsiteTool} \cup ModelTools :
              (tool \in StageToolset(units[i].stage))
                <=> ENABLED (\E world \in Worlds(tool) : InvokeTool(i, tool, world))

C33_Witness ==
  /\ Len(lookups) = 2
  /\ units[1].stage = "nurture"
  /\ lookups[1].tool = "find_relevant_content"
  /\ lookups[2].tool = "get_recent_linkedin_posts"

(***************************************************************************)
(* C34: a POST to Active-Outreach or Nurture whose batch has an item with  *)
(* a context that is missing or does not decode: the items before the      *)
(* first such item are scheduled, one unit each; that item and the items   *)
(* after it are never scheduled; the response is not the 200               *)
(* acknowledgement.                                                        *)
(***************************************************************************)
\* The position of the first item of the batch the handler fails on.
FirstMalformed(route, data) ==
  CHOOSE k \in 1..Len(data) :
    ~ValidItem(route, data[k]) /\ \A j \in 1..(k - 1) : ValidItem(route, data[j])

C34_MalformedContextAborts ==
  \A r \in 1..Len(requests) :
    LET q == requests[r]
    IN  (q.method = "POST" /\ q.route \in OutreachStages /\ ~ValidBatch(q.route, q.data))
          => LET k == FirstMalformed(q.route, q.data)
             IN  /\ q.status # 200
                 /\ q.body # AckBody(q.route)
                 /\ {units[i].idx : i \in UnitsOf(r)} = 1..(k - 1)
                 /\ Cardinality(UnitsOf(r)) = k - 1
                 /\ \A i \in UnitsOf(r) : Carries(units[i], q.route, q.data[units[i].idx])

\* The item before the malformed one was scheduled and its unit published.
C34_Witness ==
  \E r \in 1..Len(requests) :
    /\ requests[r].route = "nurture"
    /\ Len(requests[r].data) = 2
    /\ ValidItem("nurture", requests[r].data[1])
    /\ ~ValidItem("nurture", requests[r].data[2])
    /\ requests[r].status = 500
    /\ \E i \in UnitsOf(r) : units[i].idx = 1 /\ units[i].pc = "emitted"

(***************************************************************************)
(* C35: a unit of the Nurture stage whose payload parses to an object      *)
(* without the field emails ends with KeyError before the publish step:    *)
(* produce is not called for it.                                           *)
(***************************************************************************)
C35_NurtureWithoutEmails ==
  \A i \in UnitIds :
    LET json_object == outreach_payload(variant, units[i].reply)
    IN  (/\ units[i].stage = "nurture"
         /\ Returned(units[i])
         /\ json_object.kind = "object"
         /\ "emails" \notin DOMAIN json_object.val)
          => /\ units[i].pc = "raised"
             /\ units[i].error = "KeyError"
             /\ ~Published(i)
             /\ ~Forwarded(i)

C35_Witness ==
  \E i \in UnitIds :
    /\ units[i].stage = "nurture"
    /\ units[i].reply = <<"{", "}">>
    /\ units[i].error = "KeyError"
    /\ units[i].lead_evaluation = EvaluationNu

(***************************************************************************)
(* C36: a unit of an outreach stage whose Generator returned a text ends   *)
(* in the autogen example as it ends in the primary routers: produce is    *)
(* called by both with the same context, or by neither.                    *)
(***************************************************************************)
C36_VariantEquivalence ==
  \A i \in UnitIds :
    (units[i].stage \in OutreachStages /\ Returned(units[i]))
      => LET primary == start_agent_flow("primary", units[i], units[i].reply)
             autogen == start_agent_flow("autogen", units[i], units[i].reply)
         IN  /\ primary.produced = autogen.produced
             /\ primary.produced => primary.context = autogen.context

(***************************************************************************)
(* C37: the context of every envelope of the Scoring stage decodes to an   *)
(* object, equal to the payload the stage extracted from the text of its   *)
(* Generator; the Evaluation an outreach unit works on, decoded by its     *)
(* handler from that context, is equal to that payload too.                *)
(***************************************************************************)
\* The payload the publisher of envelope b extracted from its Generator text.
ExtractedBy(b) == extract(Content(variant, PublisherOf(b).reply))

C37_ScoringRoundTrip ==
  /\ \A b \in BusIds :
       bus[b].stage_origin = "scoring"
         => /\ json_loads(bus[b].context).kind = "object"
            /\ json_loads(bus[b].context) = ExtractedBy(b)
  /\ \A i \in UnitIds :
       LET b == requests[units[i].req].src
       IN  (units[i].stage \in OutreachStages /\ b > 0)
             => /\ bus[b].stage_origin = "scoring"
                /\ units[i].lead_evaluation.kind = "object"
                /\ units[i].lead_evaluation = ExtractedBy(b)

C37_Witness ==
  \E i \in UnitIds :
    /\ units[i].stage = "nurture"
    /\ requests[units[i].req].src > 0
    /\ units[i].lead_evaluation = EvaluationNu
    /\ PublisherOf(requests[units[i].req].src).reply = <<"{", "s45", "nNu", "t3", "}">>

(***************************************************************************)
(* C38: in the primary routers a GET of the Ingestion, Active-Outreach or  *)
(* Nurture route schedules exactly one unit, for the lead written in the   *)
(* code, and that unit can publish; a GET of the Scoring or Send route     *)
(* schedules no unit, and nothing is ever published after it.              *)
(***************************************************************************)
ProbingRoutes == {"ingestion", "active_outreach", "nurture"}

C38_GetProbes ==
  \A r \in 1..Len(requests) :
    (variant = "primary" /\ requests[r].method = "GET")
      => IF requests[r].route \in ProbingRoutes
           THEN /\ Cardinality(UnitsOf(r)) = 1
                /\ \A i \in UnitsOf(r) :
                     /\ units[i].stage = requests[r].route
                     /\ units[i].lead_details = TestLead
                     /\ units[i].pc = "received" => ENABLED Start(i)
                     /\ units[i].pc = "generating"
                          => \E reply \in GeneratedTexts[units[i].stage] :
                               start_agent_flow(variant, units[i], reply).produced
           ELSE /\ UnitsOf(r) = {}
                /\ units = <<>>
                /\ bus = <<>>

\* The unit of a GET of the Nurture route has published its envelope.
C38_Witness ==
  /\ variant = "primary"
  /\ Len(requests) > 0
  /\ requests[1].method = "GET"
  /\ requests[1].route = "nurture"
  /\ \E b \in BusIds : PublisherOf(b).req = 1 /\ bus[b].lead_data = TestLead

(***************************************************************************)
(* C39: an invocation of get_company_website_information returns the       *)
(* cleaned text exactly when the fetch answered with status 200; with any  *)
(* other status, the other 2xx ones too, it returns None; no line of a     *)
(* returned text is empty or blank.                                        *)
(***************************************************************************)
C39_FetchSuccessCondition ==
  \A k \in LookupIds :
    lookups[k].tool = WebsiteTool =>
      LET fetch == lookups[k].world
          outcome == lookups[k].outcome
      IN  /\ outcome.kind = "text" <=> (fetch.kind = "response" /\ fetch.status_code = 200)
          /\ (fetch.kind = "response" /\ fetch.status_code # 200) => outcome.kind = "None"
          /\ outcome.kind = "text"
               => \A n \in 1..Len(outcome.lines) : outcome.lines[n] \notin {"", " "}

====
